---- MODULE Spec2Model ----
(***************************************************************************)
(* A model of pymarketapi (src/api.py): the MarketItem / MarketPreferences *)
(* bookkeeping and the MarketApi OAuth / preference client.                *)
(*                                                                         *)
(* Python values are encoded as follows.  None is the string "None".  An   *)
(* attribute that may be missing from an instance, or may hold None, is a  *)
(* sequence of length at most one: <<>> when missing/None, <<v>> when it   *)
(* holds v.  A dict is a function from its keys to strings.  A raised      *)
(* exception is the field `outcome` of `last`, the observable result of    *)
(* the most recent call.                                                   *)
(***************************************************************************)
EXTENDS Integers, Sequences, FiniteSets, TLC

\* Longest item list explored.
MaxLen == 3
\* Longest list handed to set_items.
MaxBatch == 2

None == "None"
Nothing == <<>>
Some(v) == <<v>>

\* ------------------------------------------------------------------------
\* MarketItem / MarketPreferences
\* ------------------------------------------------------------------------

CURRENCY_ID == "ARS"

\* The MarketPreferences instances a program may create.  "B" is an instance
\* of a subclass that overrides the class attribute default_currency_id.
Prefs == {"A", "B"}

\* The MarketItem instances a program may create, and an object that is not a
\* MarketItem.
ItemObjs == {"i1", "i2", "i3"}
NotAnItem == "junk"

\* MarketItem.id as given to the constructor: i1 and i2 carry the same id.
id(item) == CASE item = "i1" -> "a" [] item = "i2" -> "a" [] OTHER -> "b"
Ids == {"a", "b"}

\* MarketItem.currency_id as given to the constructor (None by default).
currency_id(item) == CASE item = "i2" -> "USD" [] OTHER -> None

default_currency_id(self) == IF self = "A" THEN CURRENCY_ID ELSE "USD"

\* The MarketApi instances a program may create.
Clients == {"c1", "c2"}

VARIABLES
    instances,              \* the MarketPreferences instances created so far
    objects,                \* the MarketItem instances created
    cls_items,              \* MarketPreferences.items, the class attribute
    cls_registered_items,   \* MarketPreferences.registered_items, the class attribute
    inst_items,             \* self.__dict__['items'], when the instance has one
    inst_registered_items,  \* self.__dict__['registered_items'], when it has one
    market_preferences,     \* MarketItem.market_preferences
    constructed,            \* the MarketApi instances whose __init__ returned
    access_token,           \* MarketApi.access_token
    seller_access_token,    \* MarketApi.seller_access_token
    seller_preferences,     \* MarketApi.seller_preferences
    hist_seller,            \* history: the body of the latest successful seller grant
    hist_submit,            \* history: the body of the latest successful submission
    last                    \* the most recent call and its result

prefs_vars == <<instances, objects, cls_items, cls_registered_items, inst_items,
                inst_registered_items, market_preferences>>
api_vars == <<constructed, access_token, seller_access_token, seller_preferences,
              hist_seller, hist_submit>>
vars == <<instances, objects, cls_items, cls_registered_items, inst_items,
          inst_registered_items, market_preferences, constructed, access_token,
          seller_access_token, seller_preferences, hist_seller, hist_submit, last>>

\* Python attribute lookup: the instance attribute if there is one, else the
\* class attribute.
items(self) ==
    IF inst_items[self] # Nothing THEN inst_items[self][1] ELSE cls_items

registered_items(self) ==
    IF inst_registered_items[self] # Nothing THEN inst_registered_items[self][1]
    ELSE cls_registered_items

get_items(self) == items(self)

In(x, seq) == \E k \in 1..Len(seq) : seq[k] = x

\* Python truthiness of an attribute holding None, a string or an instance.
Truthy(v) == v \notin {None, ""}

MarketPreferences_get_currency(self) == default_currency_id(self)

\* MarketItem.get_currency: the result, or the exception raised.
MarketItem_get_currency_owner_first(item) ==
    IF market_preferences[item] # None
    THEN [outcome |-> "ok", ret |-> MarketPreferences_get_currency(market_preferences[item])]
    ELSE IF ~Truthy(currency_id(item))
    THEN [outcome |-> "MPException", ret |-> None]
    ELSE [outcome |-> "ok", ret |-> currency_id(item)]

MarketItem_get_currency(item) ==
    IF ~Truthy(currency_id(item)) /\ ~Truthy(market_preferences[item])
    THEN [outcome |-> "MPException", ret |-> None]
    ELSE IF ~Truthy(currency_id(item)) /\ Truthy(market_preferences[item])
    THEN [outcome |-> "ok", ret |-> MarketPreferences_get_currency(market_preferences[item])]
    ELSE [outcome |-> "ok", ret |-> currency_id(item)]

\* The guard of set_item that raises "ya existe".
Duplicate_ignoring_force(reg, item, force_append) == In(id(item), reg)

Duplicate(reg, item, force_append) == In(id(item), reg) /\ ~force_append

\* One run of the body of set_item on the lists and back-references it reads
\* and writes: its = self.items, reg = self.registered_items,
\* mp = the back-references of all items.
SetItemBody(its, reg, mp, self, item, force_append) ==
    IF item \notin ItemObjs
    THEN [outcome |-> "MPException", its |-> its, reg |-> reg, mp |-> mp]
    ELSE IF Duplicate(reg, item, force_append)
    THEN [outcome |-> "MPException", its |-> its, reg |-> reg, mp |-> mp]
    ELSE [outcome |-> "ok",
          its |-> Append(its, item),
          reg |-> Append(reg, id(item)),
          mp  |-> [mp EXCEPT ![item] = self]]

\* The loop of set_items: set_item on each element in order, stopping at the
\* first exception.
RECURSIVE SetItemsLoop(_, _, _, _, _)
SetItemsLoop(its, reg, mp, self, batch) ==
    IF batch = <<>>
    THEN [outcome |-> "ok", its |-> its, reg |-> reg, mp |-> mp]
    ELSE LET r == SetItemBody(its, reg, mp, self, Head(batch), FALSE)
         IN  IF r.outcome # "ok" THEN r
             ELSE SetItemsLoop(r.its, r.reg, r.mp, self, Tail(batch))

\* list.append mutates the list the attribute lookup found: the instance's own
\* list when it has one, the class's list otherwise.
StoreLists(self, its, reg) ==
    /\ IF inst_items[self] # Nothing
       THEN /\ inst_items' = [inst_items EXCEPT ![self] = Some(its)]
            /\ UNCHANGED cls_items
       ELSE /\ cls_items' = its
            /\ UNCHANGED inst_items
    /\ IF inst_registered_items[self] # Nothing
       THEN /\ inst_registered_items' =
                   [inst_registered_items EXCEPT ![self] = Some(reg)]
            /\ UNCHANGED cls_registered_items
       ELSE /\ cls_registered_items' = reg
            /\ UNCHANGED inst_registered_items

set_item(self, item, force_append) ==
    /\ Len(items(self)) < MaxLen
    /\ LET r == SetItemBody(items(self), registered_items(self), market_preferences,
                            self, item, force_append)
       IN  /\ StoreLists(self, r.its, r.reg)
           /\ market_preferences' = r.mp
           /\ last' = [op |-> "set_item", self |-> self, item |-> item,
                       force_append |-> force_append, outcome |-> r.outcome]
    /\ UNCHANGED <<instances, objects>>
    /\ UNCHANGED api_vars

\* The argument of set_items: a list, or a single object that is wrapped.
Batches ==
    UNION {[1..n -> objects \cup {NotAnItem}] : n \in 0..MaxBatch}

set_items(self, arg) ==
    /\ LET batch == IF arg.is_list THEN arg.v ELSE <<arg.v>>
           r == SetItemsLoop(items(self), registered_items(self), market_preferences,
                             self, batch)
       IN  /\ Len(items(self)) + Len(batch) <= MaxLen
           /\ StoreLists(self, r.its, r.reg)
           /\ market_preferences' = r.mp
           /\ last' = [op |-> "set_items", self |-> self, outcome |-> r.outcome]
    /\ UNCHANGED <<instances, objects>>
    /\ UNCHANGED api_vars

\* [item for item in self.get_items() if not item.id == id]
KeepItems_drop_first(its, i) ==
    LET hit == {k \in 1..Len(its) : id(its[k]) = i}
        first == CHOOSE k \in hit : \A j \in hit : k <= j
    IN  IF hit = {} THEN its
        ELSE SubSeq(its, 1, first - 1) \o SubSeq(its, first + 1, Len(its))

KeepItems(its, i) == SelectSeq(its, LAMBDA item : ~(id(item) = i))

\* [item for item in self.registered_items if not item == id]
KeepIds_keep_all(reg, i) == reg

KeepIds(reg, i) == SelectSeq(reg, LAMBDA x : ~(x = i))

remove_item(self, i) ==
    /\ IF ~In(i, registered_items(self))
       THEN /\ UNCHANGED prefs_vars
            /\ last' = [op |-> "remove_item", self |-> self, id |-> i,
                        outcome |-> "MPException"]
       ELSE /\ inst_items' =
                   [inst_items EXCEPT ![self] = Some(KeepItems(get_items(self), i))]
            /\ inst_registered_items' =
                   [inst_registered_items EXCEPT
                       ![self] = Some(KeepIds(registered_items(self), i))]
            /\ UNCHANGED <<instances, objects, cls_items, cls_registered_items,
                           market_preferences>>
            /\ last' = [op |-> "remove_item", self |-> self, id |-> i,
                        outcome |-> "ok"]
    /\ UNCHANGED api_vars

get_currency(item) ==
    /\ LET r == MarketItem_get_currency(item)
       IN  last' = [op |-> "get_currency", item |-> item,
                    outcome |-> r.outcome, ret |-> r.ret]
    /\ UNCHANGED prefs_vars
    /\ UNCHANGED api_vars

\* ------------------------------------------------------------------------
\* MarketApi
\* ------------------------------------------------------------------------

\* requests.codes.ok and requests.codes.created
codes_ok == 200
codes_created == 201

\* The HTTP statuses the remote service answers with.
Statuses == {codes_ok, codes_created, 202, 500}

\* The JSON bodies of the token endpoint and of the preferences endpoint on
\* success: a token mapping carries access_token and refresh_token, a
\* preference resource carries at least id.
TokenBodies ==
    {[access_token |-> "T1", refresh_token |-> "R1"],
     [access_token |-> "T2", refresh_token |-> "R2"]}

PreferenceBodies ==
    {[id |-> "p1", init_point |-> "u1"],
     [id |-> "p2", init_point |-> "u2", collector_id |-> "k2"]}

ErrorBody == [message |-> "error"]

Responses(bodies) ==
    {[status |-> st, body |-> b] : st \in {codes_ok, codes_created}, b \in bodies}
        \cup {[status |-> st, body |-> ErrorBody] :
                 st \in Statuses \ {codes_ok, codes_created}}

\* The keys get_preference_attr is asked for.
Keys == {"id", "init_point", "collector_id", "sandbox_init_point"}

\* An argument of set_buy_preferences that is not a MarketPreferences.
NotPrefs == "not_prefs"

\* The refresh tokens a caller passes to refresh_seller_access_token.
TokenArgs == {None, "R0"}

\* _call_api on the response of requests.post: the parsed body, or the
\* exception raised.
_call_api_any_2xx(response) ==
    IF ~(response.status >= 200 /\ response.status < 300)
    THEN [outcome |-> "MPException", code |-> response.status, json |-> Nothing]
    ELSE [outcome |-> "ok", code |-> 0, json |-> Some(response.body)]

_call_api(response) ==
    IF ~(response.status \in {codes_ok, codes_created})
    THEN [outcome |-> "MPException", code |-> response.status, json |-> Nothing]
    ELSE [outcome |-> "ok", code |-> 0, json |-> Some(response.body)]

\* The record of a MarketApi call: the exception raised, if any, with the
\* status it carries (code) or the text it carries (message); whether
\* requests.post was reached and the status it returned; the arguments and the
\* value returned by the attribute getters.
Called(op, self, r, response, token) ==
    [op |-> op, self |-> self, outcome |-> r.outcome, code |-> r.code,
     message |-> "", called |-> TRUE, status |-> response.status,
     token |-> token, key |-> "", ret |-> None]

Local(op, self, outcome, message, token, key, ret) ==
    [op |-> op, self |-> self, outcome |-> outcome, code |-> 0,
     message |-> message, called |-> FALSE, status |-> 0,
     token |-> token, key |-> key, ret |-> ret]

\* MarketApi.__init__ and the _connect it ends with.  When _connect raises,
\* the constructor raises and there is no instance.
MarketApi_init(self, response) ==
    /\ self \notin constructed
    /\ LET r == _call_api(response)
       IN  /\ IF r.outcome = "ok"
              THEN /\ constructed' = constructed \cup {self}
                   /\ access_token' = [access_token EXCEPT ![self] = r.json]
              ELSE UNCHANGED <<constructed, access_token>>
           /\ last' = Called("MarketApi", self, r, response, None)
    /\ UNCHANGED <<seller_access_token, seller_preferences, hist_seller, hist_submit>>
    /\ UNCHANGED prefs_vars

get_seller_access_token(self, response) ==
    /\ self \in constructed
    /\ LET r == _call_api(response)
       IN  /\ IF r.outcome = "ok"
              THEN /\ seller_access_token' =
                          [seller_access_token EXCEPT ![self] = r.json]
                   /\ hist_seller' = [hist_seller EXCEPT ![self] = r.json]
              ELSE UNCHANGED <<seller_access_token, hist_seller>>
           /\ last' = Called("get_seller_access_token", self, r, response, None)
    /\ UNCHANGED <<constructed, access_token, seller_preferences, hist_submit>>
    /\ UNCHANGED prefs_vars

\* The evaluation of `access_token or self.seller_access_token['refresh_token']`:
\* the exception it raises, or "ok".
RefreshTokenLookup(self, token) ==
    IF Truthy(token) THEN "ok"
    ELSE IF seller_access_token[self] = Nothing THEN "AttributeError"
    ELSE IF "refresh_token" \notin DOMAIN seller_access_token[self][1] THEN "KeyError"
    ELSE "ok"

refresh_seller_access_token(self, token, response) ==
    /\ self \in constructed
    /\ IF RefreshTokenLookup(self, token) # "ok"
       THEN /\ UNCHANGED <<seller_access_token, hist_seller>>
            /\ last' = Local("refresh_seller_access_token", self,
                             RefreshTokenLookup(self, token), "", token, "", None)
       ELSE LET r == _call_api(response)
            IN  /\ IF r.outcome = "ok"
                   THEN /\ seller_access_token' =
                               [seller_access_token EXCEPT ![self] = r.json]
                        /\ hist_seller' = [hist_seller EXCEPT ![self] = r.json]
                   ELSE UNCHANGED <<seller_access_token, hist_seller>>
                /\ last' = Called("refresh_seller_access_token", self, r, response, token)
    /\ UNCHANGED <<constructed, access_token, seller_preferences, hist_submit>>
    /\ UNCHANGED prefs_vars

\* preferences.json raises when an item of the list cannot resolve its currency.
JsonRaises(preferences) ==
    \E k \in 1..Len(get_items(preferences)) :
        MarketItem_get_currency(get_items(preferences)[k]).outcome # "ok"

\* The evaluation of `self.seller_access_token['access_token']`.
AccessTokenLookup(self) ==
    IF seller_access_token[self] = Nothing THEN "AttributeError"
    ELSE IF "access_token" \notin DOMAIN seller_access_token[self][1] THEN "KeyError"
    ELSE "ok"

set_buy_preferences(self, preferences, response) ==
    /\ self \in constructed
    /\ IF preferences \notin Prefs
       THEN /\ UNCHANGED <<seller_preferences, hist_submit>>
            /\ last' = Local("set_buy_preferences", self, "MPException",
                             "not a MarketPreferences", None, "", None)
       ELSE IF JsonRaises(preferences)
       THEN /\ UNCHANGED <<seller_preferences, hist_submit>>
            /\ last' = Local("set_buy_preferences", self, "MPException",
                             "no currency", None, "", None)
       ELSE IF AccessTokenLookup(self) # "ok"
       THEN /\ UNCHANGED <<seller_preferences, hist_submit>>
            /\ last' = Local("set_buy_preferences", self, AccessTokenLookup(self),
                             "", None, "", None)
       ELSE LET r == _call_api(response)
            IN  /\ IF r.outcome = "ok"
                   THEN /\ seller_preferences' =
                               [seller_preferences EXCEPT ![self] = r.json]
                        /\ hist_submit' = [hist_submit EXCEPT ![self] = r.json]
                   ELSE UNCHANGED <<seller_preferences, hist_submit>>
                /\ last' = Called("set_buy_preferences", self, r, response, None)
    /\ UNCHANGED <<constructed, access_token, seller_access_token, hist_seller>>
    /\ UNCHANGED prefs_vars

\* dict.get(key)
DictGet(d, key) == IF key \in DOMAIN d THEN d[key] ELSE None

\* `not self.seller_preferences`: None and the empty dict are falsy.
Falsy(sp) == sp = Nothing \/ DOMAIN sp[1] = {}

\* get_preference_attr on the stored resource sp: the value returned, or the
\* exception raised.
preference_attr_subscript(sp, key) ==
    IF Falsy(sp) THEN [outcome |-> "MPException", ret |-> None]
    ELSE IF key \notin DOMAIN sp[1] THEN [outcome |-> "KeyError", ret |-> None]
    ELSE [outcome |-> "ok", ret |-> sp[1][key]]

preference_attr(sp, key) ==
    IF Falsy(sp) THEN [outcome |-> "MPException", ret |-> None]
    ELSE [outcome |-> "ok", ret |-> DictGet(sp[1], key)]

get_preference_attr(self, key) ==
    /\ self \in constructed
    /\ LET r == preference_attr(seller_preferences[self], key)
       IN  last' = Local("get_preference_attr", self, r.outcome,
                         IF r.outcome = "ok" THEN "" ELSE "no seller_preferences",
                         None, key, r.ret)
    /\ UNCHANGED api_vars
    /\ UNCHANGED prefs_vars

get_preference_id(self) ==
    /\ self \in constructed
    /\ LET r == preference_attr(seller_preferences[self], "id")
       IN  last' = Local("get_preference_id", self, r.outcome,
                         IF r.outcome = "ok" THEN "" ELSE "no seller_preferences",
                         None, "id", r.ret)
    /\ UNCHANGED api_vars
    /\ UNCHANGED prefs_vars

\* MarketPreferences.__init__: `pass`.  The new instance has no attribute of
\* its own, so every lookup on it finds the class attributes.
MarketPreferences_init(self) ==
    /\ self \notin instances
    /\ instances' = instances \cup {self}
    /\ UNCHANGED <<objects, cls_items, cls_registered_items, inst_items,
                   inst_registered_items, market_preferences>>
    /\ last' = [op |-> "MarketPreferences", self |-> self, outcome |-> "ok"]
    /\ UNCHANGED api_vars

InitCommon ==
    /\ cls_items = <<>>
    /\ cls_registered_items = <<>>
    /\ inst_items = [p \in Prefs |-> Nothing]
    /\ inst_registered_items = [p \in Prefs |-> Nothing]
    /\ market_preferences = [i \in ItemObjs |-> None]
    /\ constructed = {}
    /\ access_token = [c \in Clients |-> Nothing]
    /\ seller_access_token = [c \in Clients |-> Nothing]
    /\ seller_preferences = [c \in Clients |-> Nothing]
    /\ hist_seller = [c \in Clients |-> Nothing]
    /\ hist_submit = [c \in Clients |-> Nothing]
    /\ last = [op |-> "init", outcome |-> "ok"]

\* A program with one MarketPreferences instance and three items.
InitPrefs ==
    /\ InitCommon
    /\ instances = {"A"}
    /\ objects = ItemObjs

\* A program that creates two MarketPreferences instances, and two items.
InitShared ==
    /\ InitCommon
    /\ instances = {"A"}
    /\ objects = {"i1", "i3"}

\* A program that creates MarketApi clients; it holds one empty
\* MarketPreferences to submit.
InitApi ==
    /\ InitCommon
    /\ instances = {"A"}
    /\ objects = {}

NextPrefs ==
    \/ \E self \in instances, item \in objects \cup {NotAnItem}, force_append \in BOOLEAN :
          set_item(self, item, force_append)
    \/ \E self \in instances, batch \in Batches :
          set_items(self, [is_list |-> TRUE, v |-> batch])
    \/ \E self \in instances, item \in objects \cup {NotAnItem} :
          set_items(self, [is_list |-> FALSE, v |-> item])
    \/ \E self \in instances, i \in Ids : remove_item(self, i)
    \/ \E item \in objects : get_currency(item)

NextShared ==
    \/ NextPrefs
    \/ \E self \in Prefs : MarketPreferences_init(self)

NextApi ==
    \/ \E self \in Clients, response \in Responses(TokenBodies) :
          MarketApi_init(self, response)
    \/ \E self \in Clients, response \in Responses(TokenBodies) :
          get_seller_access_token(self, response)
    \/ \E self \in Clients, token \in TokenArgs, response \in Responses(TokenBodies) :
          refresh_seller_access_token(self, token, response)
    \/ \E self \in Clients, preferences \in instances \cup {NotPrefs},
          response \in Responses(PreferenceBodies) :
          set_buy_preferences(self, preferences, response)
    \/ \E self \in Clients, key \in Keys : get_preference_attr(self, key)
    \/ \E self \in Clients : get_preference_id(self)

SpecPrefs == InitPrefs /\ [][NextPrefs]_vars

SpecShared == InitShared /\ [][NextShared]_vars

SpecApi == InitApi /\ [][NextApi]_vars

\* ------------------------------------------------------------------------
\* Properties
\* ------------------------------------------------------------------------

\* The number of entries of the item list `its` that carry the id i.
CountId(i, its) == Cardinality({k \in 1..Len(its) : id(its[k]) = i})

\* C1: whenever a MarketApi operation reaches the remote service and the
\* response status is neither 200 nor 201, the operation raises MPException
\* with that status as its code, and access_token, seller_access_token and
\* seller_preferences of every client are what they were before the call.
C1_RemoteFailure ==
    [][ (/\ last'.op \in {"MarketApi", "get_seller_access_token",
                          "refresh_seller_access_token", "set_buy_preferences"}
         /\ last'.called
         /\ last'.status \notin {200, 201})
        => (/\ last'.outcome = "MPException"
            /\ last'.code = last'.status
            /\ access_token' = access_token
            /\ seller_access_token' = seller_access_token
            /\ seller_preferences' = seller_preferences) ]_vars

\* A refresh answered with status 202 on a client that holds a seller token
\* and a stored preference resource.
C1_Witness ==
    /\ last.op = "refresh_seller_access_token"
    /\ last.called
    /\ last.status = 202
    /\ last.outcome = "MPException"
    /\ seller_access_token[last.self] # Nothing
    /\ seller_preferences[last.self] # Nothing

\* C2: set_buy_preferences on a client on which no seller grant has succeeded
\* raises MPException, reaches no remote call and leaves seller_preferences
\* unset.
C2_SubmitBeforeSellerAuth ==
    (last.op = "set_buy_preferences" /\ hist_seller[last.self] = Nothing)
        => (/\ last.outcome = "MPException"
            /\ ~last.called
            /\ seller_preferences[last.self] = Nothing)

\* C3: get_preference_attr(key) raises MPException exactly when no
\* set_buy_preferences has succeeded on the client; otherwise it returns the
\* value at key of the resource the latest successful set_buy_preferences
\* returned, None when the key is missing; get_preference_id returns its 'id'.
C3_PreferenceAttr ==
    last.op \in {"get_preference_attr", "get_preference_id"}
        => LET sub == hist_submit[last.self]
           IN  /\ (last.outcome = "MPException") <=> (sub = Nothing)
               /\ sub # Nothing =>
                     /\ last.outcome = "ok"
                     /\ last.ret = IF last.key \in DOMAIN sub[1]
                                   THEN sub[1][last.key] ELSE "None"
               /\ (last.op = "get_preference_id" /\ sub # Nothing) =>
                     last.ret = sub[1].id

\* get_preference_attr of a key the stored resource does not carry.
C3_Witness ==
    /\ last.op = "get_preference_attr"
    /\ last.outcome = "ok"
    /\ hist_submit[last.self] # Nothing
    /\ last.key \notin DOMAIN hist_submit[last.self][1]
    /\ last.ret = "None"

\* C4: set_item(item, force_append) with item.id registered and force_append
\* false raises MPException and leaves the item list, the registered ids and
\* the item's back-reference as they were; otherwise it succeeds and the new
\* item list is the old one with the item appended, so a forced add of a
\* registered id leaves at least two entries with that id.
C4_SetItem ==
    [][ \A self \in Prefs, item \in ItemObjs :
          (last'.op = "set_item" /\ last'.self = self /\ last'.item = item)
          => IF In(id(item), registered_items(self)) /\ ~last'.force_append
             THEN /\ last'.outcome = "MPException"
                  /\ items(self)' = items(self)
                  /\ registered_items(self)' = registered_items(self)
                  /\ market_preferences'[item] = market_preferences[item]
             ELSE /\ last'.outcome = "ok"
                  /\ items(self)' = Append(items(self), item)
                  /\ In(id(item), registered_items(self)) =>
                        CountId(id(item), items(self)') >= 2 ]_vars

\* A forced add of an id that was already in the list.
C4_Witness ==
    /\ last.op = "set_item"
    /\ last.item \in ItemObjs
    /\ last.force_append
    /\ last.outcome = "ok"
    /\ Len(items(last.self)) >= 2
    /\ items(last.self)[Len(items(last.self))] = last.item
    /\ CountId(id(last.item), items(last.self)) >= 2

\* C5: remove_item(id) with id not registered raises MPException and leaves
\* the item list and the registered ids as they were; with id registered,
\* afterwards no item of the list carries id, id is not registered, and the
\* list is the old one without the items that carried id, in the old order.
C5_RemoveItem ==
    [][ \A self \in Prefs, i \in Ids :
          (last'.op = "remove_item" /\ last'.self = self /\ last'.id = i)
          => IF ~In(i, registered_items(self))
             THEN /\ last'.outcome = "MPException"
                  /\ items(self)' = items(self)
                  /\ registered_items(self)' = registered_items(self)
             ELSE /\ last'.outcome = "ok"
                  /\ CountId(i, items(self)') = 0
                  /\ ~In(i, registered_items(self)')
                  /\ items(self)' =
                        SelectSeq(items(self), LAMBDA x : id(x) # i) ]_vars

\* A removal that left two different items behind.
C5_Witness ==
    /\ last.op = "remove_item"
    /\ last.outcome = "ok"
    /\ Len(items(last.self)) >= 2
    /\ items(last.self)[1] # items(last.self)[2]

\* C6: refresh_seller_access_token with no token argument on a client on
\* which no seller token was ever stored raises MPException without a remote
\* call and without changing state; with a token argument or a stored seller
\* token, a successful remote call replaces the stored seller token mapping.
C6_Refresh ==
    [][ \A self \in Clients :
          (last'.op = "refresh_seller_access_token" /\ last'.self = self)
          => /\ (hist_seller[self] = Nothing /\ last'.token = "None")
                   => (/\ last'.outcome = "MPException"
                       /\ ~last'.called
                       /\ UNCHANGED api_vars)
             /\ ((hist_seller[self] # Nothing \/ last'.token # "None")
                    /\ last'.called /\ last'.status \in {200, 201})
                   => (/\ last'.outcome = "ok"
                       /\ seller_access_token'[self] # Nothing
                       /\ seller_access_token'[self][1] \in TokenBodies) ]_vars

\* C7: get_currency returns the item's own currency_id when it is set; when
\* it is unset and the item has an owning MarketPreferences, that set's
\* default currency ("ARS" by default); when it is unset and the item has no
\* owning set, it raises MPException.
C7_GetCurrency ==
    last.op = "get_currency"
        => LET item == last.item
           IN  IF currency_id(item) # "None"
               THEN last.outcome = "ok" /\ last.ret = currency_id(item)
               ELSE IF market_preferences[item] # "None"
               THEN /\ last.outcome = "ok"
                    /\ last.ret = default_currency_id(market_preferences[item])
                    /\ market_preferences[item] = "A" => last.ret = "ARS"
               ELSE last.outcome = "MPException"

\* An item with its own currency that is owned by a set whose default differs.
C7_Witness ==
    /\ last.op = "get_currency"
    /\ currency_id(last.item) # "None"
    /\ market_preferences[last.item] # "None"
    /\ default_currency_id(market_preferences[last.item]) # currency_id(last.item)
    /\ last.ret = currency_id(last.item)

\* C8: a newly constructed MarketPreferences has an empty item list and no
\* registered ids, and set_item, set_items and remove_item on one instance
\* leave the item list and the registered ids of every other instance as they
\* were.
C8_NoSharedContainers ==
    [][ \A self \in Prefs :
          /\ (last'.op = "MarketPreferences" /\ last'.self = self)
             => (items(self)' = <<>> /\ registered_items(self)' = <<>>)
          /\ (last'.op \in {"set_item", "set_items", "remove_item"}
                 /\ last'.self = self)
             => \A other \in instances \ {self} :
                   /\ items(other)' = items(other)
                   /\ registered_items(other)' = registered_items(other) ]_vars

\* C9: each MarketItem is in the item list of at most one MarketPreferences,
\* and an item that is in a list has that set as its back-reference.
C9_AtMostOneOwner ==
    \A item \in objects : \A p \in instances :
        In(item, items(p))
            => /\ market_preferences[item] = p
               /\ \A q \in instances : In(item, items(q)) => q = p

\* C10: registered_items is the sequence of the ids of items, position by
\* position.
C10_RegisteredMatchesItems ==
    \A self \in instances :
        /\ Len(registered_items(self)) = Len(items(self))
        /\ \A k \in 1..Len(items(self)) :
              registered_items(self)[k] = id(items(self)[k])

\* A batch that failed half way on an instance that has lists of its own.
C10_Witness ==
    /\ last.op = "set_items"
    /\ last.outcome = "MPException"
    /\ inst_items[last.self] # Nothing
    /\ Len(items(last.self)) >= 2

====
